---- MODULE Spec2Model ----
(***************************************************************************)
(* Model of the server-side game engine of I_like_trains                   *)
(* (src/server/game.py, class Game): the train map, the passenger list,    *)
(* the world bounds, the engine lock, the run loop and the client-facing   *)
(* operations add_train, remove_train and change_direction_of_train.       *)
(*                                                                         *)
(* train.py and passenger.py are imported by game.py but are not part of   *)
(* the sources at hand; Train.update, Train.check_collisions,              *)
(* Train.check_out_of_bounds, Train.change_direction and the Passenger     *)
(* constructor are modelled from section 4.5 / 3 of the specification.     *)
(*                                                                         *)
(* Threads interleave between the statements of game.py that read or write *)
(* shared state.  Spec is the concurrent engine (the run loop plus client  *)
(* threads); SeqSpec runs the same steps with one call at a time, for the  *)
(* claims about what a single call does.                                   *)
(***************************************************************************)
EXTENDS Integers, Sequences, FiniteSets, TLC

\* ------------------------------------------------------------ constants
ORIGINAL_SCREEN_WIDTH == 200
ORIGINAL_SCREEN_HEIGHT == 200
grid_size == 20
screen_padding == 100
spawn_safe_zone == 3
\* the margin written as a literal in can_reduce_padding
PADDING_MARGIN == 50
\* PASSENGERS_RATIO = 0.5, kept as the fraction 1 / PASSENGERS_RATIO_DEN
PASSENGERS_RATIO_DEN == 2

\* --------------------------------------------------------------- bounds
\* agent names are 1..NumNames
NumNames == 2
\* client (network) threads are 1..NumClients; the run loop is thread 0
NumClients == 2
\* calls of add_train, remove_train, change_direction_of_train and update()
\* started in one behaviour of Spec
MaxAdds == 2
MaxRemoves == 1
MaxDirections == 1
MaxTicks == 2
\* and in one behaviour of SeqSpec
SeqAdds == 2
SeqRemoves == 2
SeqDirections == 2
SeqTicks == 3
\* spawn candidates drawn per axis: cells
\* (spawn_safe_zone + 4 * k, spawn_safe_zone), k < SpawnChoices
SpawnChoices == 2
\* passenger candidates drawn: cells (2, k + 1), k < PaxChoices
PaxChoices == 1

Names == 1..NumNames
Clients == 1..NumClients
TickThread == 0
Threads == {TickThread} \cup Clients

VARIABLES
    screen_width,      \* Game.screen_width
    screen_height,     \* Game.screen_height
    trains,            \* Game.trains: name -> Train, on the names present
    order,             \* insertion order of the keys of Game.trains
    passengers,        \* Game.passengers: sequence of positions
    lock,              \* Game.lock: the set of threads holding it (0 or 1)
    running,           \* Game.running
    pc,                \* thread -> the statement it is at
    arg,               \* thread -> agent_name of the call it is in (0: none)
    it_idx,            \* update(): entries of the dict already iterated
    it_size,           \* update(): size of the dict when iteration began
    trains_to_remove,  \* update(): the local list
    ncalls,            \* client calls still to be started, by operation
    nticks,            \* update() calls still to be started
    pre                \* SeqSpec: the engine state when the current call began

vars == <<screen_width, screen_height, trains, order, passengers, lock, running,
          pc, arg, it_idx, it_size, trains_to_remove, ncalls, nticks, pre>>

game == <<screen_width, screen_height, trains, order, passengers>>

\* ------------------------------------------------------------ utilities
Abs(n) == IF n < 0 THEN -n ELSE n

Max(a, b) == IF a >= b THEN a ELSE b

Range(s) == {s[i] : i \in 1..Len(s)}

\* s without its i-th element
RemoveAt(s, i) == SubSeq(s, 1, i - 1) \o SubSeq(s, i + 1, Len(s))

\* s without the elements equal to e
Without(s, e) == SelectSeq(s, LAMBDA v : v # e)

\* f without the key k
DropKey(f, k) == [n \in (DOMAIN f) \ {k} |-> f[n]]

\* f with key k (new or old) bound to v
PutKey(f, k, v) == [n \in (DOMAIN f) \cup {k} |-> IF n = k THEN v ELSE f[n]]

\* ------------------------------------------------- Train (specification)
UP == <<0, -1>>
DOWN == <<0, 1>>
LEFT == <<-1, 0>>
RIGHT == <<1, 0>>
Directions == {UP, DOWN, LEFT, RIGHT}

\* Train(x, y, agent_name): a train with no wagons, alive, heading right until
\* its direction is changed
Train(x, y) ==
    [position |-> <<x, y>>, direction |-> RIGHT, wagons |-> <<>>, alive |-> TRUE,
     pickups |-> 0]

\* Train.update(passengers, grid_size), steps 1 and 2 of section 4.5: the head
\* advances one cell, the wagons follow, and a passenger on the new head cell
\* is taken off the list and becomes a wagon at the tail.
\* The result is the pair <<train, passengers>>.
TrainUpdate(tr, pax) ==
    LET head == <<tr.position[1] + tr.direction[1] * grid_size,
                  tr.position[2] + tr.direction[2] * grid_size>>
        n == Len(tr.wagons)
        tail == IF n = 0 THEN tr.position ELSE tr.wagons[n]
        moved == IF n = 0 THEN <<>>
                 ELSE <<tr.position>> \o SubSeq(tr.wagons, 1, n - 1)
        hits == {i \in 1..Len(pax) : pax[i] = head}
        first == CHOOSE i \in hits : \A j \in hits : i <= j
    IN  IF hits = {}
        THEN <<[tr EXCEPT !.position = head, !.wagons = moved], pax>>
        ELSE <<[tr EXCEPT !.position = head, !.wagons = moved \o <<tail>>,
                          !.pickups = @ + 1],
               RemoveAt(pax, first)>>

\* the names of the other trains whose head is on the head cell of train n
HeadOn(T, n) == {m \in (DOMAIN T) \ {n} : T[m].position = T[n].position}

\* Train.check_collisions(all_trains), step 3 of section 4.5: the head of
\* train n is on another train's head or on a wagon of any train
check_collisions(T, n) ==
    \/ HeadOn(T, n) # {}
    \/ \E m \in DOMAIN T : \E i \in 1..Len(T[m].wagons) :
           T[m].wagons[i] = T[n].position

\* Train.check_out_of_bounds(width, height), step 4 of section 4.5
check_out_of_bounds(tr, w, h) ==
    ~(/\ 0 <= tr.position[1] /\ tr.position[1] < w
      /\ 0 <= tr.position[2] /\ tr.position[2] < h)

\* the alive flags after check_collisions of train n: a collision marks the
\* train dead, and two heads on one cell mark both trains dead
MarkDead(T, n) ==
    LET hit == IF check_collisions(T, n) THEN {n} \cup HeadOn(T, n) ELSE {}
    IN  [m \in DOMAIN T |-> IF m \in hit THEN [T[m] EXCEPT !.alive = FALSE]
                            ELSE T[m]]
\* ------------------------------------------------------- Game: helpers
\* is_position_safe with the test of the trains and wagons left out
is_position_safe_EdgesOnly(x, y) ==
    LET safe_distance == grid_size * spawn_safe_zone
    IN  ~(\/ x < safe_distance
          \/ y < safe_distance
          \/ x > screen_width - safe_distance
          \/ y > screen_height - safe_distance)

\* is_position_safe(x, y)
is_position_safe(x, y) ==
    LET safe_distance == grid_size * spawn_safe_zone
    IN  /\ ~(\/ x < safe_distance
             \/ y < safe_distance
             \/ x > screen_width - safe_distance
             \/ y > screen_height - safe_distance)
        /\ \A n \in DOMAIN trains :
              /\ ~(/\ Abs(trains[n].position[1] - x) < safe_distance
                   /\ Abs(trains[n].position[2] - y) < safe_distance)
              /\ \A i \in 1..Len(trains[n].wagons) :
                    ~(/\ Abs(trains[n].wagons[i][1] - x) < safe_distance
                      /\ Abs(trains[n].wagons[i][2] - y) < safe_distance)

\* the cells random.randint(spawn_safe_zone, size // grid_size - spawn_safe_zone)
\* draws from; randint raises ValueError when this range is empty
SpawnRange(size) == spawn_safe_zone..((size \div grid_size) - spawn_safe_zone)

SpawnRaises == SpawnRange(screen_width) = {} \/ SpawnRange(screen_height) = {}

\* every position one attempt of get_safe_spawn_position can sample
SpawnSamples ==
    {<<cx * grid_size, cy * grid_size>> :
        cx \in SpawnRange(screen_width), cy \in SpawnRange(screen_height)}

\* the sampled cells the model draws from
SpawnCells ==
    {<<spawn_safe_zone + 4 * k, spawn_safe_zone>> : k \in 0..(SpawnChoices - 1)}

\* the default position at the centre
SpawnCenter ==
    <<((screen_width \div 2) \div grid_size) * grid_size,
      ((screen_height \div 2) \div grid_size) * grid_size>>

\* get_safe_spawn_position returning the last sampled position, not the
\* centre, when no attempt found a safe one
get_safe_spawn_position_LastSample ==
    LET safe == {p \in SpawnSamples : is_position_safe(p[1], p[2])}
        drawn == {p \in safe :
                     <<p[1] \div grid_size, p[2] \div grid_size>> \in SpawnCells}
        least == {p \in safe : \A q \in safe :
                     \/ p[1] < q[1]
                     \/ (p[1] = q[1] /\ p[2] <= q[2])}
    IN  (IF drawn # {} THEN drawn ELSE least) \cup (SpawnSamples \ safe)

\* get_safe_spawn_position(): the positions it can return.  A sampled position
\* is returned only if it is safe; the centre is returned when every attempt
\* sampled an unsafe position, which needs an unsafe position to exist.
get_safe_spawn_position ==
    LET safe == {p \in SpawnSamples : is_position_safe(p[1], p[2])}
        drawn == {p \in safe :
                     <<p[1] \div grid_size, p[2] \div grid_size>> \in SpawnCells}
        least == {p \in safe : \A q \in safe :
                     \/ p[1] < q[1]
                     \/ (p[1] = q[1] /\ p[2] <= q[2])}
    IN  (IF drawn # {} THEN drawn ELSE least)
        \cup (IF safe # SpawnSamples THEN {SpawnCenter} ELSE {})

\* Passenger(game): the positions the model draws a new passenger from, a
\* grid-aligned position of the current world
PassengerPositions ==
    LET cells == {<<2, k + 1>> : k \in 0..(PaxChoices - 1)}
        inside == {c \in cells : /\ c[1] < screen_width \div grid_size
                                 /\ c[2] < screen_height \div grid_size}
    IN  IF inside = {} THEN {<<0, 0>>}
        ELSE {<<c[1] * grid_size, c[2] * grid_size>> : c \in inside}

\* desired_passengers = max(1, int(len(self.trains) * PASSENGERS_RATIO))
desired_passengers == Max(1, Cardinality(DOMAIN trains) \div PASSENGERS_RATIO_DEN)

\* update_passengers_count(): the passenger lists it can leave
update_passengers_count ==
    IF Len(passengers) >= desired_passengers
    THEN {SubSeq(passengers, 1, desired_passengers)}
    ELSE {passengers \o new :
            new \in [1..(desired_passengers - Len(passengers)) -> PassengerPositions]}

\* can_reduce_padding comparing with the margin left of screen_padding
can_reduce_padding_NarrowMargin ==
    \A n \in DOMAIN trains :
        /\ ~(\/ trains[n].position[1] >= screen_width - (screen_padding - PADDING_MARGIN)
             \/ trains[n].position[2] >= screen_height - (screen_padding - PADDING_MARGIN))
        /\ \A i \in 1..Len(trains[n].wagons) :
              ~(\/ trains[n].wagons[i][1] >= screen_width - (screen_padding - PADDING_MARGIN)
                \/ trains[n].wagons[i][2] >= screen_height - (screen_padding - PADDING_MARGIN))

\* can_reduce_padding()
can_reduce_padding ==
    \A n \in DOMAIN trains :
        /\ ~(\/ trains[n].position[1] >= screen_width - screen_padding - PADDING_MARGIN
             \/ trains[n].position[2] >= screen_height - screen_padding - PADDING_MARGIN)
        /\ \A i \in 1..Len(trains[n].wagons) :
              ~(\/ trains[n].wagons[i][1] >= screen_width - screen_padding - PADDING_MARGIN
                \/ trains[n].wagons[i][2] >= screen_height - screen_padding - PADDING_MARGIN)

\* TrainDied with the collision and alive tests left out
TrainDied_NoCollision(T, n) ==
    check_out_of_bounds(T[n], screen_width, screen_height)

\* the death condition of update(), evaluated on the map T after train n moved
TrainDied(T, n) ==
    \/ check_collisions(T, n)
    \/ check_out_of_bounds(T[n], screen_width, screen_height)
    \/ ~MarkDead(T, n)[n].alive

\* ------------------------------------------------------------- snapshots
NoTrains == [n \in {} |-> n]

NoPre ==
    [op |-> "none", name |-> 0, w |-> 0, h |-> 0, trains |-> NoTrains,
     passengers |-> <<>>]

Snapshot(op, n) ==
    [op |-> op, name |-> n, w |-> screen_width, h |-> screen_height,
     trains |-> trains, passengers |-> passengers]

\* where remove_train returns to: the removal pass of update(), or the caller
AfterRemove(t) == IF t = TickThread THEN "t_rm" ELSE "idle"

Goto(t, label) == pc' = [pc EXCEPT ![t] = label]

tick_locals == <<it_idx, it_size, trains_to_remove>>

\* ------------------------------------------------------------------ Init
Start ==
    /\ screen_width = ORIGINAL_SCREEN_WIDTH
    /\ screen_height = ORIGINAL_SCREEN_HEIGHT
    /\ trains = NoTrains
    /\ order = <<>>
    /\ passengers = <<>>
    /\ lock = {}
    /\ running = TRUE
    /\ pc = [t \in Threads |-> IF t = TickThread THEN "t_loop" ELSE "idle"]
    /\ arg = [t \in Threads |-> 0]
    /\ it_idx = 0
    /\ it_size = 0
    /\ trains_to_remove = <<>>
    /\ pre = NoPre

Init ==
    /\ Start
    /\ ncalls = [add |-> MaxAdds, remove |-> MaxRemoves, direction |-> MaxDirections]
    /\ nticks = MaxTicks

SeqInit ==
    /\ Start
    /\ ncalls = [add |-> SeqAdds, remove |-> SeqRemoves, direction |-> SeqDirections]
    /\ nticks = SeqTicks
\* ------------------------------------------------- add_train(agent_name)
\* a client thread calls add_train(n)
CallAdd(t, n, snap) ==
    /\ pc[t] = "idle"
    /\ ncalls.add > 0
    /\ Goto(t, "a_acquire")
    /\ arg' = [arg EXCEPT ![t] = n]
    /\ ncalls' = [ncalls EXCEPT !.add = @ - 1]
    /\ pre' = IF snap THEN Snapshot("add", n) ELSE pre
    /\ UNCHANGED <<game, lock, running, tick_locals, nticks>>

\* AddAcquire entering the with block without waiting for the lock
AddAcquire_NoWait(t) ==
    /\ pc[t] = "a_acquire"
    /\ lock' = lock \cup {t}
    /\ Goto(t, "a_insert")
    /\ UNCHANGED <<game, running, arg, tick_locals, ncalls, nticks, pre>>

\* with self.lock:
AddAcquire(t) ==
    /\ pc[t] = "a_acquire"
    /\ lock = {}
    /\ lock' = {t}
    /\ Goto(t, "a_insert")
    /\ UNCHANGED <<game, running, arg, tick_locals, ncalls, nticks, pre>>

\* start_x, start_y = self.get_safe_spawn_position()
\* self.trains[agent_name] = Train(...)
\* (randint raising ValueError leaves the with block and the call)
AddInsert(t) ==
    /\ pc[t] = "a_insert"
    /\ IF SpawnRaises
       THEN /\ lock' = {}
            /\ Goto(t, "idle")
            /\ arg' = [arg EXCEPT ![t] = 0]
            /\ UNCHANGED <<trains, order>>
       ELSE /\ \E p \in get_safe_spawn_position :
                  trains' = PutKey(trains, arg[t], Train(p[1], p[2]))
            /\ order' = IF arg[t] \in DOMAIN trains THEN order
                        ELSE Append(order, arg[t])
            /\ Goto(t, "a_count")
            /\ UNCHANGED <<lock, arg>>
    /\ UNCHANGED <<screen_width, screen_height, passengers, running,
                   tick_locals, ncalls, nticks, pre>>

\* self.update_passengers_count()
AddCount(t) ==
    /\ pc[t] = "a_count"
    /\ passengers' \in update_passengers_count
    /\ Goto(t, "a_release")
    /\ UNCHANGED <<screen_width, screen_height, trains, order, lock, running,
                   arg, tick_locals, ncalls, nticks, pre>>

\* the end of the with block
AddRelease(t) ==
    /\ pc[t] = "a_release"
    /\ lock' = lock \ {t}
    /\ Goto(t, "a_grow_w")
    /\ UNCHANGED <<game, running, arg, tick_locals, ncalls, nticks, pre>>

\* update_screen_size(): self.screen_width += self.screen_padding
AddGrowWidth(t) ==
    /\ pc[t] = "a_grow_w"
    /\ screen_width' = screen_width + screen_padding
    /\ Goto(t, "a_grow_h")
    /\ UNCHANGED <<screen_height, trains, order, passengers, lock, running,
                   arg, tick_locals, ncalls, nticks, pre>>

\* update_screen_size(): self.screen_height += self.screen_padding
AddGrowHeight(t) ==
    /\ pc[t] = "a_grow_h"
    /\ screen_height' = screen_height + screen_padding
    /\ Goto(t, "idle")
    /\ arg' = [arg EXCEPT ![t] = 0]
    /\ UNCHANGED <<screen_width, trains, order, passengers, lock, running,
                   tick_locals, ncalls, nticks, pre>>

\* ---------------------------------------------- remove_train(agent_name)
\* a client thread calls remove_train(n)
CallRemove(t, n, snap) ==
    /\ pc[t] = "idle"
    /\ ncalls.remove > 0
    /\ Goto(t, "r_pop")
    /\ arg' = [arg EXCEPT ![t] = n]
    /\ ncalls' = [ncalls EXCEPT !.remove = @ - 1]
    /\ pre' = IF snap THEN Snapshot("remove", n) ELSE pre
    /\ UNCHANGED <<game, lock, running, tick_locals, nticks>>

\* if agent_name in self.trains: self.trains.pop(agent_name)
RemovePop(t) ==
    /\ pc[t] = "r_pop"
    /\ trains' = DropKey(trains, arg[t])
    /\ order' = Without(order, arg[t])
    /\ Goto(t, "r_count")
    /\ UNCHANGED <<screen_width, screen_height, passengers, lock, running,
                   arg, tick_locals, ncalls, nticks, pre>>

\* self.update_passengers_count()
RemoveCount(t) ==
    /\ pc[t] = "r_count"
    /\ passengers' \in update_passengers_count
    /\ Goto(t, "r_size")
    /\ UNCHANGED <<screen_width, screen_height, trains, order, lock, running,
                   arg, tick_locals, ncalls, nticks, pre>>

\* RemoveSize reducing the width without asking can_reduce_padding
RemoveSize_NoTest(t) ==
    /\ pc[t] = "r_size"
    /\ IF Cardinality(DOMAIN trains) > 0
       THEN /\ screen_width' = screen_width - screen_padding
            /\ Goto(t, "r_red_h")
            /\ UNCHANGED arg
       ELSE /\ screen_width' = ORIGINAL_SCREEN_WIDTH
            /\ Goto(t, "r_reset_h")
            /\ UNCHANGED arg
    /\ UNCHANGED <<screen_height, trains, order, passengers, lock, running,
                   tick_locals, ncalls, nticks, pre>>

\* if len(self.trains) > 0: if self.can_reduce_padding(): self.reduce_padding()
\*     (reduce_padding tests can_reduce_padding again, then reduces the width)
\* else: self.screen_width = ORIGINAL_SCREEN_WIDTH
RemoveSize(t) ==
    /\ pc[t] = "r_size"
    /\ IF Cardinality(DOMAIN trains) > 0
       THEN IF can_reduce_padding
            THEN /\ screen_width' = screen_width - screen_padding
                 /\ Goto(t, "r_red_h")
                 /\ UNCHANGED arg
            ELSE /\ Goto(t, AfterRemove(t))
                 /\ arg' = [arg EXCEPT ![t] = 0]
                 /\ UNCHANGED screen_width
       ELSE /\ screen_width' = ORIGINAL_SCREEN_WIDTH
            /\ Goto(t, "r_reset_h")
            /\ UNCHANGED arg
    /\ UNCHANGED <<screen_height, trains, order, passengers, lock, running,
                   tick_locals, ncalls, nticks, pre>>

\* reduce_padding(): self.screen_height -= self.screen_padding
RemoveReduceHeight(t) ==
    /\ pc[t] = "r_red_h"
    /\ screen_height' = screen_height - screen_padding
    /\ Goto(t, AfterRemove(t))
    /\ arg' = [arg EXCEPT ![t] = 0]
    /\ UNCHANGED <<screen_width, trains, order, passengers, lock, running,
                   tick_locals, ncalls, nticks, pre>>

\* self.screen_height = ORIGINAL_SCREEN_HEIGHT
RemoveResetHeight(t) ==
    /\ pc[t] = "r_reset_h"
    /\ screen_height' = ORIGINAL_SCREEN_HEIGHT
    /\ Goto(t, "r_clear")
    /\ UNCHANGED <<screen_width, trains, order, passengers, lock, running,
                   arg, tick_locals, ncalls, nticks, pre>>

\* RemoveClear with the passenger list left as it is
RemoveClear_Skipped(t) ==
    /\ pc[t] = "r_clear"
    /\ Goto(t, AfterRemove(t))
    /\ arg' = [arg EXCEPT ![t] = 0]
    /\ UNCHANGED <<game, lock, running, tick_locals, ncalls, nticks, pre>>

\* self.passengers.clear()
RemoveClear(t) ==
    /\ pc[t] = "r_clear"
    /\ passengers' = <<>>
    /\ Goto(t, AfterRemove(t))
    /\ arg' = [arg EXCEPT ![t] = 0]
    /\ UNCHANGED <<screen_width, screen_height, trains, order, lock, running,
                   tick_locals, ncalls, nticks, pre>>

\* ------------------- change_direction_of_train(agent_name, new_direction)
\* CallChangeDirection without the test `agent_name in self.trains`, turning
\* every train
CallChangeDirection_AllTrains(t, n, d, snap) ==
    /\ pc[t] = "idle"
    /\ ncalls.direction > 0
    /\ ncalls' = [ncalls EXCEPT !.direction = @ - 1]
    /\ trains' = [m \in DOMAIN trains |-> [trains[m] EXCEPT !.direction = d]]
    /\ pre' = IF snap THEN Snapshot("direction", n) ELSE pre
    /\ UNCHANGED <<screen_width, screen_height, order, passengers, lock,
                   running, pc, arg, tick_locals, nticks>>

\* if agent_name in self.trains: self.trains[agent_name].change_direction(d)
\* Train.change_direction sets the heading the next update moves along
CallChangeDirection(t, n, d, snap) ==
    /\ pc[t] = "idle"
    /\ ncalls.direction > 0
    /\ ncalls' = [ncalls EXCEPT !.direction = @ - 1]
    /\ trains' = IF n \in DOMAIN trains
                 THEN [trains EXCEPT ![n].direction = d]
                 ELSE trains
    /\ pre' = IF snap THEN Snapshot("direction", n) ELSE pre
    /\ UNCHANGED <<screen_width, screen_height, order, passengers, lock,
                   running, pc, arg, tick_locals, nticks>>
\* ------------------------------------------------------ run() / update()
\* while self.running: false, the loop ends
RunStop ==
    /\ pc[TickThread] = "t_loop"
    /\ ~running
    /\ Goto(TickThread, "stopped")
    /\ UNCHANGED <<game, lock, running, arg, tick_locals, ncalls, nticks, pre>>

\* TickIdle recomputing the passenger count before it returns
TickIdle_Recount ==
    /\ pc[TickThread] = "t_loop"
    /\ running
    /\ nticks > 0
    /\ DOMAIN trains = {}
    /\ nticks' = nticks - 1
    /\ passengers' \in update_passengers_count
    /\ UNCHANGED <<screen_width, screen_height, trains, order, lock, running,
                   pc, arg, tick_locals, ncalls, pre>>

\* update(): if not self.trains: return
TickIdle ==
    /\ pc[TickThread] = "t_loop"
    /\ running
    /\ nticks > 0
    /\ DOMAIN trains = {}
    /\ nticks' = nticks - 1
    /\ UNCHANGED <<game, lock, running, pc, arg, tick_locals, ncalls, pre>>

\* update(): there are trains, go on to the with block
TickBegin ==
    /\ pc[TickThread] = "t_loop"
    /\ running
    /\ nticks > 0
    /\ DOMAIN trains # {}
    /\ nticks' = nticks - 1
    /\ Goto(TickThread, "t_acquire")
    /\ UNCHANGED <<game, lock, running, arg, tick_locals, ncalls, pre>>

\* with self.lock: trains_to_remove = []; the for loop takes its iterator
TickAcquire ==
    /\ pc[TickThread] = "t_acquire"
    /\ lock = {}
    /\ lock' = {TickThread}
    /\ trains_to_remove' = <<>>
    /\ it_idx' = 0
    /\ it_size' = Cardinality(DOMAIN trains)
    /\ Goto(TickThread, "t_iter")
    /\ UNCHANGED <<game, running, arg, ncalls, nticks, pre>>

\* TickCrash leaving the with block with the lock still held
TickCrash_KeepsLock ==
    /\ pc[TickThread] = "t_iter"
    /\ Cardinality(DOMAIN trains) # it_size
    /\ Goto(TickThread, "crashed")
    /\ UNCHANGED <<game, lock, running, arg, tick_locals, ncalls, nticks, pre>>

\* the dict iterator finds the size of the dict changed: RuntimeError leaves
\* the with block, update() and run()
TickCrash ==
    /\ pc[TickThread] = "t_iter"
    /\ Cardinality(DOMAIN trains) # it_size
    /\ lock' = lock \ {TickThread}
    /\ Goto(TickThread, "crashed")
    /\ UNCHANGED <<game, running, arg, tick_locals, ncalls, nticks, pre>>

\* TickTrain testing the death conditions of a train before it has moved
TickTrain_CheckBeforeMove ==
    /\ pc[TickThread] = "t_iter"
    /\ Cardinality(DOMAIN trains) = it_size
    /\ it_idx < it_size
    /\ LET n == order[it_idx + 1]
           upd == TrainUpdate(trains[n], passengers)
           T == [trains EXCEPT ![n] = upd[1]]
       IN  /\ trains' = T
           /\ passengers' = upd[2]
           /\ trains_to_remove' = IF TrainDied(trains, n)
                                  THEN Append(trains_to_remove, n)
                                  ELSE trains_to_remove
    /\ it_idx' = it_idx + 1
    /\ UNCHANGED <<screen_width, screen_height, order, lock, running, pc, arg,
                   it_size, ncalls, nticks, pre>>

\* TickTrain with train.update given a copy of the passenger list
TickTrain_CopiedPassengers ==
    /\ pc[TickThread] = "t_iter"
    /\ Cardinality(DOMAIN trains) = it_size
    /\ it_idx < it_size
    /\ LET n == order[it_idx + 1]
           upd == TrainUpdate(trains[n], passengers)
           T == [trains EXCEPT ![n] = upd[1]]
       IN  /\ trains' = MarkDead(T, n)
           /\ trains_to_remove' = IF TrainDied(T, n)
                                  THEN Append(trains_to_remove, n)
                                  ELSE trains_to_remove
    /\ it_idx' = it_idx + 1
    /\ UNCHANGED <<screen_width, screen_height, order, passengers, lock,
                   running, pc, arg, it_size, ncalls, nticks, pre>>

\* one turn of the for loop: train.update(self.passengers, self.grid_size),
\* then the death conditions; a dead train's name is appended
TickTrain ==
    /\ pc[TickThread] = "t_iter"
    /\ Cardinality(DOMAIN trains) = it_size
    /\ it_idx < it_size
    /\ LET n == order[it_idx + 1]
           upd == TrainUpdate(trains[n], passengers)
           T == [trains EXCEPT ![n] = upd[1]]
       IN  /\ trains' = MarkDead(T, n)
           /\ passengers' = upd[2]
           /\ trains_to_remove' = IF TrainDied(T, n)
                                  THEN Append(trains_to_remove, n)
                                  ELSE trains_to_remove
    /\ it_idx' = it_idx + 1
    /\ UNCHANGED <<screen_width, screen_height, order, lock, running, pc, arg,
                   it_size, ncalls, nticks, pre>>

\* the for loop over the trains ends
TickIterEnd ==
    /\ pc[TickThread] = "t_iter"
    /\ Cardinality(DOMAIN trains) = it_size
    /\ it_idx = it_size
    /\ it_idx' = 0
    /\ Goto(TickThread, "t_rm")
    /\ UNCHANGED <<game, lock, running, arg, it_size, trains_to_remove,
                   ncalls, nticks, pre>>

\* TickRemove passing over a collected name without calling remove_train
TickRemove_Deferred ==
    /\ pc[TickThread] = "t_rm"
    /\ it_idx < Len(trains_to_remove)
    /\ it_idx' = it_idx + 1
    /\ UNCHANGED <<game, lock, running, pc, arg, it_size, trains_to_remove,
                   ncalls, nticks, pre>>

\* for train_name in trains_to_remove: self.remove_train(train_name)
TickRemove ==
    /\ pc[TickThread] = "t_rm"
    /\ it_idx < Len(trains_to_remove)
    /\ it_idx' = it_idx + 1
    /\ arg' = [arg EXCEPT ![TickThread] = trains_to_remove[it_idx + 1]]
    /\ Goto(TickThread, "r_pop")
    /\ UNCHANGED <<game, lock, running, it_size, trains_to_remove, ncalls,
                   nticks, pre>>

\* the removal loop ends
TickRemoveEnd ==
    /\ pc[TickThread] = "t_rm"
    /\ it_idx = Len(trains_to_remove)
    /\ Goto(TickThread, "t_release")
    /\ UNCHANGED <<game, lock, running, arg, tick_locals, ncalls, nticks, pre>>

\* the end of the with block; update() returns to run()
TickRelease ==
    /\ pc[TickThread] = "t_release"
    /\ lock' = lock \ {TickThread}
    /\ it_idx' = 0
    /\ it_size' = 0
    /\ trains_to_remove' = <<>>
    /\ Goto(TickThread, "t_loop")
    /\ UNCHANGED <<game, running, arg, ncalls, nticks, pre>>

\* the server clears the running flag
Stop ==
    /\ running
    /\ running' = FALSE
    /\ UNCHANGED <<game, lock, pc, arg, tick_locals, ncalls, nticks, pre>>

\* ------------------------------------------------------- the two systems
\* the steps inside a call, by whichever thread is in it
AddStep ==
    \E t \in Clients :
        \/ AddAcquire(t)
        \/ AddInsert(t)
        \/ AddCount(t)
        \/ AddRelease(t)
        \/ AddGrowWidth(t)
        \/ AddGrowHeight(t)

RemoveStep ==
    \E t \in Threads :
        \/ RemovePop(t)
        \/ RemoveCount(t)
        \/ RemoveSize(t)
        \/ RemoveReduceHeight(t)
        \/ RemoveResetHeight(t)
        \/ RemoveClear(t)

\* the steps of update() when no other thread is in a call
SeqTickStep ==
    \/ TickAcquire
    \/ TickTrain
    \/ TickIterEnd
    \/ TickRemove
    \/ TickRemoveEnd
    \/ TickRelease

TickStep ==
    \/ TickCrash
    \/ SeqTickStep

\* Spec: client threads call at any time
AddTrain == \E t \in Clients, n \in Names : CallAdd(t, n, FALSE)

RemoveTrain == \E t \in Clients, n \in Names : CallRemove(t, n, FALSE)

ChangeDirection ==
    \E t \in Clients, n \in Names, d \in Directions :
        CallChangeDirection(t, n, d, FALSE)

Next ==
    \/ AddTrain
    \/ RemoveTrain
    \/ ChangeDirection
    \/ AddStep
    \/ RemoveStep
    \/ TickIdle
    \/ TickBegin
    \/ TickStep

Spec == Init /\ [][Next]_vars

\* SeqSpec: one call at a time, made by one client thread while the run loop
\* is between two calls of update(); a call of update() starts only after the
\* caller has seen the call return
SeqClient == CHOOSE t \in Clients : \A u \in Clients : t <= u

AtRest == \A t \in Threads : pc[t] \in {"idle", "t_loop", "stopped", "crashed"}

Returned == pc[SeqClient] = "idle" /\ pre.op # "none"

SeqAddTrain ==
    \E n \in Names : AtRest /\ ~Returned /\ CallAdd(SeqClient, n, TRUE)

SeqRemoveTrain ==
    \E n \in Names : AtRest /\ ~Returned /\ CallRemove(SeqClient, n, TRUE)

SeqChangeDirection ==
    \E n \in Names, d \in Directions :
        AtRest /\ ~Returned /\ CallChangeDirection(SeqClient, n, d, TRUE)

\* the caller goes on after the call
SeqReturn ==
    /\ Returned
    /\ pre' = NoPre
    /\ UNCHANGED <<game, lock, running, pc, arg, tick_locals, ncalls, nticks>>

SeqTickIdle == AtRest /\ ~Returned /\ TickIdle

SeqTickBegin == AtRest /\ ~Returned /\ TickBegin

SeqNext ==
    \/ SeqAddTrain
    \/ SeqRemoveTrain
    \/ SeqChangeDirection
    \/ SeqReturn
    \/ AddStep
    \/ RemoveStep
    \/ SeqTickIdle
    \/ SeqTickBegin
    \/ SeqTickStep

SeqSpec == SeqInit /\ [][SeqNext]_vars
\* ================================================================ claims
\* the statements at which a thread writes the train map, the passenger list
\* or the bounds
MutatingPcs ==
    {"a_insert", "a_count", "a_grow_w", "a_grow_h", "r_pop", "r_count",
     "r_size", "r_red_h", "r_reset_h", "r_clear", "t_iter"}

\* C1: every thread that is at a statement writing the train map, the
\* passenger list or the bounds holds the engine lock.
C1_WritersHoldLock ==
    \A t \in Threads : pc[t] \in MutatingPcs => t \in lock

\* C2: between calls, the width and the height are never below the original
\* minimum dimensions.
C2_BoundsAtLeastOriginal ==
    AtRest => /\ screen_width >= ORIGINAL_SCREEN_WIDTH
              /\ screen_height >= ORIGINAL_SCREEN_HEIGHT

\* C3: when remove_train returns from a call with a name that was not in the
\* train map, the train map, the passenger list and the bounds are as they
\* were when the call began.
C3_RemoveAbsentIsNoOp ==
    (Returned /\ pre.op = "remove" /\ pre.name \notin DOMAIN pre.trains)
        => /\ trains = pre.trains
           /\ passengers = pre.passengers
           /\ screen_width = pre.w
           /\ screen_height = pre.h

\* C4: when the removal pass of update() has finished, no two distinct trains
\* of the train map have their heads on the same cell.
C4_NoSharedHeadAfterTick ==
    pc[TickThread] = "t_release"
        => \A a, b \in DOMAIN trains :
               a # b => trains[a].position # trains[b].position

\* C4 witness: a tick in which a train ran into the head of a train that
\* stays in the map has finished its removal pass.
C4_Witness ==
    /\ pc[TickThread] = "t_release"
    /\ trains_to_remove # <<>>
    /\ \E n \in DOMAIN trains : ~trains[n].alive

\* C5: when the pass of update() over the trains has left two distinct trains
\* with their heads on the same cell, both are among the names the removal
\* pass removes.
C5_BothCollected ==
    pc[TickThread] = "t_rm"
        => \A a, b \in DOMAIN trains :
               (a # b /\ trains[a].position = trains[b].position)
                   => {a, b} \subseteq Range(trains_to_remove)

\* C6: when add_train returns from a call with a name that was not in the
\* train map, the map has one train more, the name is a key of it, and the
\* width and the height are each one screen_padding larger than when the call
\* began.
C6_AddGrowsByOne ==
    (Returned /\ pre.op = "add" /\ pre.name \notin DOMAIN pre.trains)
        => /\ Cardinality(DOMAIN trains) = Cardinality(DOMAIN pre.trains) + 1
           /\ pre.name \in DOMAIN trains
           /\ screen_width = pre.w + screen_padding
           /\ screen_height = pre.h + screen_padding

\* C7: when remove_train returns from a call that removed the last train, the
\* passenger list is empty and the bounds are the original dimensions.
C7_LastRemovalResets ==
    (Returned /\ pre.op = "remove" /\ pre.name \in DOMAIN pre.trains
              /\ DOMAIN trains = {})
        => /\ passengers = <<>>
           /\ screen_width = ORIGINAL_SCREEN_WIDTH
           /\ screen_height = ORIGINAL_SCREEN_HEIGHT

\* C7 witness: the last train was removed from a world that had grown and
\* held a passenger.
C7_Witness ==
    /\ Returned
    /\ pre.op = "remove"
    /\ pre.name \in DOMAIN pre.trains
    /\ DOMAIN trains = {}
    /\ pre.w > ORIGINAL_SCREEN_WIDTH
    /\ pre.h > ORIGINAL_SCREEN_HEIGHT
    /\ pre.passengers # <<>>

\* C8: whenever there is no train and no thread is inside an operation, the
\* bounds are the original dimensions.
C8_EmptyWorldIsOriginal ==
    (DOMAIN trains = {} /\ AtRest)
        => /\ screen_width = ORIGINAL_SCREEN_WIDTH
           /\ screen_height = ORIGINAL_SCREEN_HEIGHT

\* C9: when add_train returns from a call with a name that was already in the
\* train map, the train map, the passenger list and the bounds are as they
\* were when the call began.
C9_AddPresentIsNoOp ==
    (Returned /\ pre.op = "add" /\ pre.name \in DOMAIN pre.trains)
        => /\ trains = pre.trains
           /\ passengers = pre.passengers
           /\ screen_width = pre.w
           /\ screen_height = pre.h

\* C10: when add_train or remove_train returns and leaves n >= 1 trains, the
\* passenger list has max(1, n div 2) passengers.
C10_PassengerCountAfterCall ==
    (Returned /\ pre.op \in {"add", "remove"} /\ DOMAIN trains # {})
        => Len(passengers) =
               Max(1, Cardinality(DOMAIN trains) \div PASSENGERS_RATIO_DEN)

\* C11: when update() has finished its removal pass and n >= 1 trains are in
\* the map, the passenger list has max(1, n div 2) passengers, also when a
\* train picked a passenger up in that call of update().
C11_PassengerCountAtTickEnd ==
    (pc[TickThread] = "t_release" /\ DOMAIN trains # {})
        => Len(passengers) = desired_passengers

\* C12: in every step, every train of the map has as many wagons as it has
\* picked passengers up; the number of wagons of a train changes only by a
\* pickup, which adds exactly one wagon and takes exactly one passenger off
\* the shared passenger list (a train that add_train has just constructed in
\* place of another of the same name starts with no wagon and no pickup).
C12_ChainFollowsPickups ==
    [][/\ \A n \in DOMAIN trains' :
             Len(trains'[n].wagons) = trains'[n].pickups
       /\ \A n \in DOMAIN trains \cap DOMAIN trains' :
             Len(trains'[n].wagons) # Len(trains[n].wagons)
                 => \/ /\ Len(trains'[n].wagons) = Len(trains[n].wagons) + 1
                       /\ trains'[n].pickups = trains[n].pickups + 1
                       /\ Len(passengers') = Len(passengers) - 1
                    \/ /\ \E t \in Clients : pc[t] = "a_insert" /\ arg[t] = n
                       /\ trains'[n].wagons = <<>>
                       /\ trains'[n].pickups = 0]_vars

\* C12 witness: a train has picked a passenger up and pulls one wagon.
C12_Witness ==
    \E n \in DOMAIN trains :
        /\ trains[n].pickups = 1
        /\ Len(trains[n].wagons) = 1
        /\ passengers = <<>>

\* C13 as stated: when add_train has inserted a train at a position other than the
\* centre, that position is grid-aligned, at least grid_size * spawn_safe_zone
\* away from every edge of the world, and at least that far on the x axis and
\* on the y axis from the head and from every wagon of every train that was in
\* the map when the call began.
C13_SpawnClearOnBothAxes ==
    (/\ pc[SeqClient] = "a_count"
     /\ pre.op = "add"
     /\ trains[pre.name].position # SpawnCenter)
        => LET p == trains[pre.name].position
               safe_distance == grid_size * spawn_safe_zone
               Clear(q) == /\ Abs(q[1] - p[1]) >= safe_distance
                           /\ Abs(q[2] - p[2]) >= safe_distance
           IN  /\ p[1] % grid_size = 0
               /\ p[2] % grid_size = 0
               /\ p[1] >= safe_distance
               /\ p[2] >= safe_distance
               /\ screen_width - p[1] >= safe_distance
               /\ screen_height - p[2] >= safe_distance
               /\ \A m \in DOMAIN pre.trains :
                      /\ Clear(pre.trains[m].position)
                      /\ \A i \in 1..Len(pre.trains[m].wagons) :
                             Clear(pre.trains[m].wagons[i])

\* C13 as amended: when add_train has inserted a train at a position other
\* than the centre, that position is grid-aligned, at least
\* grid_size * spawn_safe_zone away from every edge of the world, and at least
\* that far on the x axis or on the y axis from the head and from every wagon
\* of every train that was in the map when the call began.
C13_SpawnOutsideEveryBox ==
    (/\ pc[SeqClient] = "a_count"
     /\ pre.op = "add"
     /\ trains[pre.name].position # SpawnCenter)
        => LET p == trains[pre.name].position
               safe_distance == grid_size * spawn_safe_zone
               Clear(q) == \/ Abs(q[1] - p[1]) >= safe_distance
                           \/ Abs(q[2] - p[2]) >= safe_distance
           IN  /\ p[1] % grid_size = 0
               /\ p[2] % grid_size = 0
               /\ p[1] >= safe_distance
               /\ p[2] >= safe_distance
               /\ screen_width - p[1] >= safe_distance
               /\ screen_height - p[2] >= safe_distance
               /\ \A m \in DOMAIN pre.trains :
                      /\ Clear(pre.trains[m].position)
                      /\ \A i \in 1..Len(pre.trains[m].wagons) :
                             Clear(pre.trains[m].wagons[i])

\* C13 witness: add_train has inserted a train at a position other than the
\* centre, in the row of the head of a train that was already in the map.
C13_Witness ==
    /\ pc[SeqClient] = "a_count"
    /\ pre.op = "add"
    /\ trains[pre.name].position # SpawnCenter
    /\ \E m \in DOMAIN pre.trains :
          pre.trains[m].position[2] = trains[pre.name].position[2]

C15_TickSurvivesFailure ==
    pc[TickThread] # "crashed"

\* C16: a call of update() that has started is never left before its removal
\* pass is over: once the run loop has ended, no name that update() collected
\* for removal is still a key of the train map.
C16_NoMidTickExit ==
    pc[TickThread] \in {"stopped", "crashed"}
        => Range(trains_to_remove) \cap DOMAIN trains = {}

\* C17: when change_direction_of_train returns, the keys of the train map, the
\* passenger list and the bounds are as they were when the call began, every
\* train other than the named one is as it was, and the named train, if
\* there is one, differs at most in its direction; so a call with a name that
\* is not in the map changes nothing.
C17_DirectionTouchesOneTrain ==
    (Returned /\ pre.op = "direction")
        => /\ DOMAIN trains = DOMAIN pre.trains
           /\ passengers = pre.passengers
           /\ screen_width = pre.w
           /\ screen_height = pre.h
           /\ \A m \in DOMAIN trains :
                  IF m = pre.name
                  THEN [trains[m] EXCEPT !.direction = pre.trains[m].direction]
                           = pre.trains[m]
                  ELSE trains[m] = pre.trains[m]

\* C17 witness: the first call of change_direction_of_train has returned, its
\* name was not in the map, and a train is in the map, heading as constructed.
C17_Witness ==
    /\ Returned
    /\ pre.op = "direction"
    /\ pre.name \notin DOMAIN pre.trains
    /\ \E m \in DOMAIN trains : trains[m].direction = RIGHT
    /\ ncalls.direction = SeqDirections - 1

\* C18: a call of update() made while the train map is empty returns at once
\* and leaves the train map, the passenger list and the bounds as they were,
\* without taking the lock.
C18_IdleTickIsNoOp ==
    [][(pc[TickThread] = "t_loop" /\ DOMAIN trains = {} /\ nticks' # nticks)
           => /\ trains' = trains
              /\ order' = order
              /\ passengers' = passengers
              /\ screen_width' = screen_width
              /\ screen_height' = screen_height
              /\ lock' = lock
              /\ pc' = pc]_vars

\* C18 witness: update() has been called and has returned, and no train was
\* ever added.
C18_Witness ==
    /\ nticks < SeqTicks
    /\ ncalls.add = SeqAdds
    /\ pc[TickThread] = "t_loop"
    /\ DOMAIN trains = {}

\* C19 as stated: where remove_train asks can_reduce_padding, the answer is false
\* exactly when the head or a wagon of some train has
\* x >= width - (screen_padding - 50) or y >= height - (screen_padding - 50),
\* and true otherwise.
C19_CanShrinkThreshold ==
    (DOMAIN trains # {} /\ \E t \in Threads : pc[t] = "r_size")
        => LET Near(q) ==
                   \/ q[1] >= screen_width - (screen_padding - PADDING_MARGIN)
                   \/ q[2] >= screen_height - (screen_padding - PADDING_MARGIN)
           IN  can_reduce_padding
                   <=> ~\E n \in DOMAIN trains :
                           \/ Near(trains[n].position)
                           \/ \E i \in 1..Len(trains[n].wagons) :
                                  Near(trains[n].wagons[i])

\* C19 as amended: where remove_train asks can_reduce_padding, the answer is
\* false exactly when the head or a wagon of some train has
\* x >= width - screen_padding - 50 or y >= height - screen_padding - 50, and
\* true otherwise.
C19_CanShrinkAtPaddingPlusMargin ==
    (DOMAIN trains # {} /\ \E t \in Threads : pc[t] = "r_size")
        => LET Near(q) ==
                   \/ q[1] >= screen_width - screen_padding - PADDING_MARGIN
                   \/ q[2] >= screen_height - screen_padding - PADDING_MARGIN
           IN  can_reduce_padding
                   <=> ~\E n \in DOMAIN trains :
                           \/ Near(trains[n].position)
                           \/ \E i \in 1..Len(trains[n].wagons) :
                                  Near(trains[n].wagons[i])

\* C19 witness: remove_train asks can_reduce_padding while a head is
\* screen_padding + 50 or less, and more than screen_padding - 50, away from
\* the right or the bottom edge, and no head is outside the world.
C19_Witness ==
    /\ \E t \in Threads : pc[t] = "r_size"
    /\ \E n \in DOMAIN trains :
          \/ /\ trains[n].position[1] >= screen_width - screen_padding - PADDING_MARGIN
             /\ trains[n].position[1] < screen_width - (screen_padding - PADDING_MARGIN)
          \/ /\ trains[n].position[2] >= screen_height - screen_padding - PADDING_MARGIN
             /\ trains[n].position[2] < screen_height - (screen_padding - PADDING_MARGIN)
    /\ \A n \in DOMAIN trains :
          ~check_out_of_bounds(trains[n], screen_width, screen_height)

\* C20: when remove_train returns and leaves at least one train, the width and
\* the height are each exactly one screen_padding smaller than when the call
\* began if can_reduce_padding passes on the remaining trains at the bounds
\* the call began with, and are as they were otherwise.
C20_RemoveShrinksOneStep ==
    (Returned /\ pre.op = "remove" /\ DOMAIN trains # {})
        => LET Near(q) ==
                   \/ q[1] >= pre.w - screen_padding - PADDING_MARGIN
                   \/ q[2] >= pre.h - screen_padding - PADDING_MARGIN
               passes ==
                   ~\E n \in DOMAIN trains :
                       \/ Near(trains[n].position)
                       \/ \E i \in 1..Len(trains[n].wagons) :
                              Near(trains[n].wagons[i])
           IN  IF passes
               THEN /\ screen_width = pre.w - screen_padding
                    /\ screen_height = pre.h - screen_padding
               ELSE /\ screen_width = pre.w
                    /\ screen_height = pre.h

\* C20 witness: remove_train has returned, has made the world one
\* screen_padding smaller, and the remaining trains would let it shrink again.
C20_Witness ==
    /\ Returned
    /\ pre.op = "remove"
    /\ DOMAIN trains # {}
    /\ screen_width = pre.w - screen_padding
    /\ screen_height = pre.h - screen_padding
    /\ can_reduce_padding

\* C21: from the moment update() holds the lock until its removal pass is
\* over, no step of a client thread adds or removes a key of the train map.
C21_NoClientWriteDuringTick ==
    [][(TickThread \in lock /\ \E t \in Clients : pc'[t] # pc[t])
           => DOMAIN trains' = DOMAIN trains]_vars

\* C22: update() is two-phase.  A turn of its for loop handles one train, the
\* next in the order of the map, and removes no key; the loop is left only for
\* the removal pass, once as many trains were handled as the map held when the
\* loop began, with the map's keys still the same; the removal pass calls
\* remove_train with the collected names one by one, in the order collected,
\* and ends when all were handed over.
C22_TickIsTwoPhase ==
    [][/\ (pc[TickThread] = "t_iter" /\ pc'[TickThread] = "t_iter"
              /\ it_idx' # it_idx)
           => /\ it_idx' = it_idx + 1
              /\ order' = order
              /\ DOMAIN trains' = DOMAIN trains
              /\ \A n \in (DOMAIN trains) \ {order[it_idx']} :
                     trains'[n].position = trains[n].position
       /\ (pc[TickThread] = "t_iter" /\ pc'[TickThread] # "t_iter")
           => /\ pc'[TickThread] = "t_rm"
              /\ it_idx = it_size
              /\ it_size = Len(order)
              /\ order' = order
              /\ DOMAIN trains' = DOMAIN trains
       /\ (pc[TickThread] = "t_rm" /\ pc'[TickThread] # "t_rm")
           => \/ /\ pc'[TickThread] = "r_pop"
                 /\ it_idx < Len(trains_to_remove)
                 /\ arg'[TickThread] = trains_to_remove[it_idx + 1]
                 /\ it_idx' = it_idx + 1
              \/ /\ pc'[TickThread] = "t_release"
                 /\ it_idx = Len(trains_to_remove)]_vars

\* C23: a turn of the for loop of update() moves one train, the next in the
\* order of the map, and no other, and tests that train's death conditions at
\* once: its name is collected exactly if its new head is on the head or a
\* wagon of another train as that train is at this moment (moved already if
\* it was handled earlier in the pass, not yet moved if it comes later), or on
\* a wagon of its own, or outside the world, or the train was flagged dead.
C23_SinglePassOrder ==
    [][(pc[TickThread] = "t_iter" /\ pc'[TickThread] = "t_iter"
            /\ it_idx' = it_idx + 1)
           => LET n == order[it_idx']
                  head == trains'[n].position
                  others == (DOMAIN trains) \ {n}
                  hit == \/ \E m \in others :
                                \/ trains[m].position = head
                                \/ \E i \in 1..Len(trains[m].wagons) :
                                       trains[m].wagons[i] = head
                         \/ \E i \in 1..Len(trains'[n].wagons) :
                                trains'[n].wagons[i] = head
                  died == \/ hit
                          \/ check_out_of_bounds(trains'[n], screen_width,
                                                 screen_height)
                          \/ ~trains[n].alive
              IN  /\ head = <<trains[n].position[1]
                                  + trains[n].direction[1] * grid_size,
                              trains[n].position[2]
                                  + trains[n].direction[2] * grid_size>>
                  /\ \A m \in others :
                         /\ trains'[m].position = trains[m].position
                         /\ trains'[m].wagons = trains[m].wagons
                  /\ trains_to_remove' = IF died
                                         THEN Append(trains_to_remove, n)
                                         ELSE trains_to_remove]_vars

\* C23 witness: the first train of the pass has moved onto the head of the
\* second, which has not moved yet, and was collected for it.
C23_Witness ==
    /\ pc[TickThread] = "t_iter"
    /\ it_idx = 1
    /\ Len(order) = 2
    /\ trains_to_remove = <<order[1]>>
    /\ trains[order[1]].position = trains[order[2]].position

\* C24 as stated: when a call of update() is about to return, the trains whose
\* death conditions it found true are still in the train map (they are removed
\* by the next call).
C24_RemovedNextTick ==
    pc[TickThread] = "t_release"
        => Range(trains_to_remove) \subseteq DOMAIN trains

\* C24 as amended: when a call of update() is about to return, none of the
\* trains whose death conditions it found true is in the train map any more:
\* its own removal pass has removed them.
C24_RemovedSameTick ==
    pc[TickThread] = "t_release"
        => Range(trains_to_remove) \cap DOMAIN trains = {}

\* C24 witness: a call of update() that found a train dead is about to return.
C24_Witness ==
    /\ pc[TickThread] = "t_release"
    /\ Len(trains_to_remove) >= 1

\* C25: whenever no thread is inside an operation, the width equals the
\* height, both are positive multiples of grid_size, and both differ from the
\* original dimensions by a whole number of screen_padding increments.
C25_BoundsSquareAndAligned ==
    AtRest
        => /\ screen_width = screen_height
           /\ screen_width > 0
           /\ screen_height > 0
           /\ screen_width % grid_size = 0
           /\ screen_height % grid_size = 0
           /\ (screen_width - ORIGINAL_SCREEN_WIDTH) % screen_padding = 0
           /\ (screen_height - ORIGINAL_SCREEN_HEIGHT) % screen_padding = 0

\* the statements of add_train inside its with block
AddSectionPcs == {"a_insert", "a_count", "a_release"}

\* the statements of update() inside its with block, those of the
\* remove_train it calls included
TickSectionPcs ==
    {"t_iter", "t_rm", "t_release", "r_pop", "r_count", "r_size", "r_red_h",
     "r_reset_h", "r_clear"}

\* the threads inside the with block of add_train or of update()
InSection ==
    {t \in Clients : pc[t] \in AddSectionPcs}
        \cup {t \in {TickThread} : pc[t] \in TickSectionPcs}

\* C26: at most one thread is inside the with block of add_train or of
\* update(), that thread is the holder of the lock, and while update() is
\* inside its with block no add_train stands between its insertion and its
\* passenger recount.
C26_SectionsExclusive ==
    /\ Cardinality(InSection) <= 1
    /\ InSection = lock
    /\ pc[TickThread] \in TickSectionPcs
           => \A t \in Clients : pc[t] # "a_count"

\* update() waits for the lock while an add_train has inserted its train and
\* not yet recounted the passengers
C26_Witness ==
    /\ pc[TickThread] = "t_acquire"
    /\ \E t \in Clients : pc[t] = "a_count" /\ arg[t] \in DOMAIN trains

\* FairSpec: one client thread and the run loop under fair scheduling. A thread inside a
\* call takes its next statement when that stays possible, and a thread
\* waiting at `with self.lock` gets the lock if it is free again and again.
\* Nothing makes a client call or the run loop start another update().
Fairness ==
    /\ \A t \in Clients :
           /\ SF_vars(AddAcquire(t))
           /\ WF_vars(\/ AddInsert(t)
                      \/ AddCount(t)
                      \/ AddRelease(t)
                      \/ AddGrowWidth(t)
                      \/ AddGrowHeight(t))
    /\ \A t \in Threads :
           WF_vars(\/ RemovePop(t)
                   \/ RemoveCount(t)
                   \/ RemoveSize(t)
                   \/ RemoveReduceHeight(t)
                   \/ RemoveResetHeight(t)
                   \/ RemoveClear(t))
    /\ SF_vars(TickAcquire)
    /\ WF_vars(TickCrash \/ TickTrain \/ TickIterEnd \/ TickRemove
                   \/ TickRemoveEnd \/ TickRelease)

\* one client thread calls at any time, next to the run loop
FairAddTrain == \E n \in Names : CallAdd(SeqClient, n, FALSE)

FairRemoveTrain == \E n \in Names : CallRemove(SeqClient, n, FALSE)

FairChangeDirection ==
    \E n \in Names, d \in Directions :
        CallChangeDirection(SeqClient, n, d, FALSE)

FairNext ==
    \/ FairAddTrain
    \/ FairRemoveTrain
    \/ FairChangeDirection
    \/ AddStep
    \/ RemoveStep
    \/ TickIdle
    \/ TickBegin
    \/ TickStep

FairSpec == Init /\ [][FairNext]_vars /\ Fairness

\* the statements of a call of add_train
AddPcs == {"a_acquire", "a_grow_w", "a_grow_h"} \cup AddSectionPcs

\* the statements of a call of update() past its emptiness test
TickPcs == {"t_acquire"} \cup TickSectionPcs

\* C27: no thread waits for the lock while holding it; the lock is free
\* whenever no add_train and no update() is in progress; and under fair
\* scheduling every add_train that was called comes back to its caller and
\* every update() that was started ends, by returning to run() or by the
\* exception that ends run().
C27_NoDeadlockOnLock ==
    /\ [](/\ \A t \in Threads :
                 pc[t] \in {"a_acquire", "t_acquire"} => t \notin lock
          /\ ((\A t \in Clients : pc[t] \notin AddPcs)
                  /\ pc[TickThread] \notin TickPcs)
                 => lock = {})
    /\ \A t \in Clients : (pc[t] \in AddPcs) ~> (pc[t] = "idle")
    /\ (pc[TickThread] \in TickPcs)
           ~> (pc[TickThread] \in {"t_loop", "crashed"})

\* update() is inside the remove_train of its removal pass, holding the lock
\* it took at the start
C27_Witness ==
    /\ pc[TickThread] = "r_pop"
    /\ lock = {TickThread}
    /\ arg[TickThread] \in DOMAIN trains
====
